---- MODULE Spec2Model ----
(***************************************************************************)
(* Model of the batch pipeline of iot-report:                              *)
(*   batch_processor.py  batch_process_papers, process_pdf_batch           *)
(*   pdf_processor.py    extract_text_from_pdf, extract_paper_info,        *)
(*                       save_to_excel                                     *)
(* The pipeline runs on one asyncio event loop.  The main coroutine        *)
(* suspends only at its awaits (three asyncio.gather calls per batch and   *)
(* asyncio.sleep between batches); the tasks a gather creates are run by   *)
(* the loop in FIFO order and keep the loop until they suspend or return.  *)
(***************************************************************************)
EXTENDS Integers, Sequences, FiniteSets, TLC

\* ---------------------------------------------------------------- bounds
MaxDocs == 3
MaxBatchSize == 3

\* ------------------------------------------------------------- documents
\* pdf_file.name of the k-th file of papers_path.glob("*.pdf")
Names == <<"a.pdf", "b.pdf", "c.pdf", "d.pdf", "e.pdf">>

Name(d) == Names[d]

Min(a, b) == IF a < b THEN a ELSE b

\* a slice one file short
SliceShort(files, i, size) ==
    [k \in 1..(Min(i + size - 1, Len(files)) - Min(i, Len(files))) |-> files[i + k]]

\* pdf_files[i : i + batch_size] as the sequence of (1-based) file indices
Slice(files, i, size) ==
    [k \in 1..(Min(i + size, Len(files)) - Min(i, Len(files))) |-> files[i + k]]

\* (i // batch_size) + 1
BatchNum(i, size) == (i \div size) + 1

\* ------------------------------------------------- extract_text_from_pdf
\* What fitz does with the file: it raises, or it yields the page texts; a
\* page text is represented by its stripped length (0 = whitespace only).
PdfContents ==
    { [raises |-> TRUE,  pages |-> <<>>],
      [raises |-> FALSE, pages |-> <<>>],
      [raises |-> FALSE, pages |-> <<0>>],
      [raises |-> FALSE, pages |-> <<1>>] }

\* the strategies extract_text_from_pdf has, in the order it tries them:
\* the text layer read through PyMuPDF (strategy 1) and no other
Strategies == <<1>>

RECURSIVE JoinedLength(_)
\* the stripped length of "\n".join(full_text)
JoinedLength(lengths) ==
    IF lengths = <<>> THEN 0
    ELSE IF Len(lengths) = 1 THEN lengths[1]
    ELSE lengths[1] + 1 + JoinedLength(Tail(lengths))

\* the text returned for a file: "" on any exception, otherwise the join
\* of the pages whose stripped text is non-empty; represented by its
\* stripped length
\* the exception fitz raises leaves the coroutine: asyncio.gather with
\* return_exceptions=True puts it in the place of the text (-1)
extract_text_from_pdf_propagates(content) ==
    IF content.raises THEN -1
    ELSE JoinedLength(SelectSeq(content.pages, LAMBDA l : l > 0))

extract_text_from_pdf(content) ==
    IF content.raises THEN 0
    ELSE JoinedLength(SelectSeq(content.pages, LAMBDA l : l > 0))

\* isinstance(text, Exception): what gather returned is an exception
IsException(text) == text < 0

\* not text.strip()
IsBlank(text) == text = 0

\* ---------------------------------------------------- extract_paper_info
\* the whole text is put in the user message
UserMessageTextWhole(text) == text

\* line 72: text[:15000], as the number of characters
UserMessageText(text) == IF text >= 15000 THEN 15000 ELSE text

RequiredFields ==
    {"title", "abstract", "method", "objectives", "categories", "summary"}

\* The bodies the service can answer with (response.choices[0].message.content):
\* text that is not JSON, JSON that is not an object, and JSON objects with
\* the required keys, with one missing, and with an additional "filename";
\* na: the keys under which the model answered "N/A".
Bodies ==
    { [syntax |-> "notjson",   keys |-> {}, na |-> {}],
      [syntax |-> "nonobject", keys |-> {}, na |-> {}],
      [syntax |-> "object",    keys |-> RequiredFields, na |-> {}],
      [syntax |-> "object",    keys |-> RequiredFields, na |-> {"method"}],
      [syntax |-> "object",    keys |-> RequiredFields \ {"summary"}, na |-> {}],
      [syntax |-> "object",    keys |-> RequiredFields \cup {"filename"},
       na |-> {}] }

NoneResult == [syntax |-> "None", keys |-> {}, na |-> {}]

\* What the create() call does: it raises, the message has no content, or
\* the message content is a body.
ServiceOutcomes ==
    { [syntax |-> "raises", keys |-> {}, na |-> {}],
      [syntax |-> "no_content", keys |-> {}, na |-> {}] } \cup Bodies

\* the value extract_paper_info returns: None when the call raised, else
\* the message content (None when the message has none)
extract_paper_info(outcome) ==
    IF outcome.syntax = "raises" \/ outcome.syntax = "no_content"
    THEN NoneResult
    ELSE outcome

\* ------------------------------------------------------------ the records
\* Cell values are strings; a Python list is written "list:<items>" and
\* the text Excel holds for it "['<items>']".
NoTextRecord(name, is_exception) ==
    [filename   |-> name,
     title      |-> name,
     abstract   |-> IF ~is_exception THEN "No text extracted"
                                     ELSE "Text extraction error",
     method     |-> "Processing failed",
     objectives |-> "Processing failed",
     categories |-> "list:Error",
     summary    |-> "Failed to extract text from PDF"]

OpenAINoneRecord(name) ==
    [filename   |-> name,
     title      |-> name,
     abstract   |-> "OpenAI processing failed",
     method     |-> "OpenAI processing failed",
     objectives |-> "OpenAI processing failed",
     categories |-> "list:Error",
     summary    |-> "OpenAI returned no response"]

JsonFailedRecord(name) ==
    [filename   |-> name,
     title      |-> name,
     abstract   |-> "JSON parsing failed",
     method     |-> "JSON parsing failed",
     objectives |-> "JSON parsing failed",
     categories |-> "list:Error",
     summary    |-> "JSON parsing error"]

\* json.loads(openai_result): raises JSONDecodeError, or returns a value
\* that is a dict (with the body's keys) or is not one
json_loads(body) ==
    IF body.syntax = "notjson"
    THEN [raises |-> TRUE,  isdict |-> FALSE, keys |-> {}, na |-> {}]
    ELSE [raises |-> FALSE, isdict |-> body.syntax = "object",
          keys |-> body.keys, na |-> body.na]

\* the value the model put under a key
ModelValue(key) ==
    IF key = "categories" THEN "list:kw"
    ELSE IF key = "filename" THEN "model.pdf"
    ELSE "model text"

\* the filename the model put in its answer is kept
ParsedRecordKeepsFilename(name, parsed) ==
    [c \in parsed.keys \cup {"filename"} |->
        IF c = "filename" /\ c \notin parsed.keys THEN name
        ELSE IF c \in parsed.na THEN "N/A"
        ELSE ModelValue(c)]

\* record = json.loads(openai_result); record["filename"] = pdf_file.name
ParsedRecord(name, parsed) ==
    [c \in parsed.keys \cup {"filename"} |->
        IF c = "filename" THEN name
        ELSE IF c \in parsed.na THEN "N/A"
        ELSE ModelValue(c)]

\* Lines 82-123: what the loop over the OpenAI results does with one result.
\* "TypeError" is the item assignment on a value that is not a dict; it is
\* not a json.JSONDecodeError and leaves the try block uncaught.
ResultOutcome(result) ==
    IF result.syntax = "None" THEN "none"
    ELSE IF json_loads(result).raises THEN "json_failed"
    ELSE IF ~json_loads(result).isdict THEN "TypeError"
    ELSE "successful"

ResultRecord(name, result) ==
    IF ResultOutcome(result) = "none" THEN OpenAINoneRecord(name)
    ELSE IF ResultOutcome(result) = "json_failed" THEN JsonFailedRecord(name)
    ELSE ParsedRecord(name, json_loads(result))

\* ----------------------------------------------------------- save_to_excel
Timestamp == "now"

\* record["processed_at"] = datetime.now().strftime(...)
Stamped(record) ==
    [c \in DOMAIN record \cup {"processed_at"} |->
        IF c = "processed_at" THEN Timestamp ELSE record[c]]

Cols(df) == UNION {DOMAIN df[k] : k \in 1..Len(df)}

FillRow(row, cols) ==
    [c \in cols |-> IF c \in DOMAIN row THEN row[c] ELSE "NaN"]

\* pd.concat([df, pd.DataFrame([record])], ignore_index=True): the rows of
\* df, then the record, over the union of the columns
Concat(df, record) ==
    LET cols == Cols(df) \cup DOMAIN record
    IN  [k \in 1..(Len(df) + 1) |->
            IF k <= Len(df) THEN FillRow(df[k], cols) ELSE FillRow(record, cols)]

\* the text a cell holds in the written file
ExcelCell(v) ==
    IF v = "list:Error" THEN "['Error']"
    ELSE IF v = "list:kw" THEN "['kw']"
    ELSE v

\* df.to_excel(excel_path, index=False): the rows of the written file
ToExcel(df) ==
    [k \in 1..Len(df) |-> [c \in DOMAIN df[k] |-> ExcelCell(df[k][c])]]

\* the cell texts pd.read_excel takes for missing values by default
\* (keep_default_na), among the values of the model
NaTexts == {"", "N/A", "NaN"}

\* pd.read_excel(excel_path): an empty cell and a cell holding one of the
\* default NA texts are read as NaN (written back as an empty cell)
ReadExcel(rows) ==
    [k \in 1..Len(rows) |->
        [c \in DOMAIN rows[k] |->
            IF rows[k][c] \in NaTexts THEN "NaN" ELSE rows[k][c]]]

\* a record whose filename the table already holds is not added
SaveFrameSkipsKnown(file_exists, rows, record) ==
    IF file_exists
    THEN IF \E k \in 1..Len(rows) : rows[k].filename = record.filename
         THEN ReadExcel(rows)
         ELSE Concat(ReadExcel(rows), Stamped(record))
    ELSE <<Stamped(record)>>

\* lines 99-103: the table save_to_excel holds before it rewrites the file
SaveFrame(file_exists, rows, record) ==
    IF file_exists THEN Concat(ReadExcel(rows), Stamped(record))
    ELSE <<Stamped(record)>>

\* a row a previous run left in the store
OldRow == ToExcel(<<Stamped(NoTextRecord("old.pdf", FALSE))>>)[1]

\* the rows a previous run over the same files left in the store, one for
\* each file name (save_to_excel never looks at what the rows hold)
PreviousRun(files) ==
    [k \in 1..Len(files) |->
        ToExcel(<<Stamped(NoTextRecord(Name(files[k]), FALSE))>>)[1]]

\* ------------------------------------------------------------- the state
VARIABLES
    invoked,           \* the extraction strategies invoked for each file
    attempts,          \* the service requests issued for each file
    call_raised,       \* the files whose last service request raised
    sent_chars,        \* the characters of each file's text in its request
    side_files,        \* the files the downstream consumers have written
    text_raised,       \* the files of the gathered text tasks where fitz raised
    store_torn,        \* the Excel file is open for rewriting
    initial_store,     \* the rows of the Excel file when the run began
    papers_exists,     \* papers_path.exists()
    pdf_files,         \* list(papers_path.glob("*.pdf")), as file indices
    batch_size,
    pc,                \* where batch_process_papers stands
    i,                 \* the for loop's variable
    batch,             \* the pdf_files of the running process_pdf_batch
    texts,             \* the text gathered for each file (stripped length)
    valid_indices,     \* the files of the batch sent to the service
    openai_results,    \* the result gathered for each file
    save_tasks,        \* the files of the batch in the order of save_tasks
    records,           \* the record built for each file of the batch
    successful,        \* the counters of the running process_pdf_batch
    failed,
    total_successful,
    total_failed,
    ready,             \* the event loop's queue of runnable tasks
    running,           \* the task that holds the event loop (0: none)
    stage,             \* how far each file's processing has come
    df,                \* the table held by each save_to_excel in progress
    store,             \* the rows of the Excel file
    store_exists,      \* excel_path.exists()
    save_errors,       \* the files whose save printed "Error saving to Excel"
    batches,           \* the batches formed so far: number and files
    pauses             \* the asyncio.sleep(2) calls made so far

vars == <<invoked, attempts, call_raised, sent_chars, side_files,
          text_raised, store_torn, initial_store, papers_exists, pdf_files,
          batch_size, pc, i, batch, texts,
          valid_indices, openai_results, save_tasks, records, successful,
          failed, total_successful, total_failed, ready, running, stage, df,
          store, store_exists, save_errors, batches, pauses>>

Docs == 1..MaxDocs

Range(s) == {s[k] : k \in 1..Len(s)}

Unset == [syntax |-> "unset", keys |-> {}, na |-> {}]

Init ==
    /\ papers_exists \in BOOLEAN
    /\ pdf_files \in {[k \in 1..n |-> k] : n \in 0..MaxDocs}
    /\ (~papers_exists => pdf_files = <<>>)
    /\ batch_size \in 1..MaxBatchSize
    /\ pc = "begin"
    /\ i = 0
    /\ batch = <<>>
    /\ texts = [d \in Docs |-> 0]
    /\ valid_indices = <<>>
    /\ openai_results = [d \in Docs |-> Unset]
    /\ save_tasks = <<>>
    /\ records = <<>>
    /\ successful = 0
    /\ failed = 0
    /\ total_successful = 0
    /\ total_failed = 0
    /\ ready = <<>>
    /\ running = 0
    /\ stage = [d \in Docs |-> "idle"]
    /\ df = <<>>
    /\ store \in {<<>>, <<OldRow>>, PreviousRun(pdf_files)}
    /\ store_exists = (store # <<>>)
    /\ store_torn = FALSE
    /\ initial_store = store
    /\ invoked = [d \in Docs |-> <<>>]
    /\ attempts = [d \in Docs |-> 0]
    /\ call_raised = {}
    /\ sent_chars = [d \in Docs |-> 0]
    /\ side_files = {}
    /\ text_raised = {}
    /\ save_errors = {}
    /\ batches = <<>>
    /\ pauses = 0

\* ------------------------------------------------------- the event loop
\* save_to_excel awaiting between reading the table and rewriting it
AwaitPointsSaveYields(coroutine) ==
    IF coroutine = "save_to_excel" THEN {"read"} ELSE {}

\* The places where a coroutine body gives the event loop back before it
\* returns: its await expressions.  extract_text_from_pdf, extract_paper_info
\* and save_to_excel are declared async but contain no await.
AwaitPoints(coroutine) == {}

\* the task at the head of the queue gets the loop when nobody holds it
CanRun(d) == running = 0 /\ ready # <<>> /\ Head(ready) = d

\* a task that ran up to `point` of its coroutine: it keeps the loop, or
\* suspends and queues behind the tasks that are ready
RunTo(d, coroutine, point) ==
    IF point \in AwaitPoints(coroutine)
    THEN running' = 0 /\ ready' = Append(Tail(ready), d)
    ELSE running' = d /\ ready' = Tail(ready)

\* a task in the middle of its coroutine that holds the loop or is resumed
CanResume(d) == running = d \/ CanRun(d)

\* the task returns
Return(d) ==
    /\ running' = 0
    /\ ready' = IF running = d THEN ready ELSE Tail(ready)

\* a gather that returns while tasks are still queued
GatherIdle == running = 0

\* every task of the awaited gather has returned
GatherDone == ready = <<>> /\ running = 0

\* -------------------------------------------------- batch_process_papers
\* the directory and the file list are not checked before the loop
BeginNoCheck ==
    /\ pc = "begin"
    /\ pc' = "loop"
    /\ UNCHANGED <<sent_chars, invoked, attempts, call_raised, side_files, text_raised, store_torn,
                   initial_store, papers_exists, pdf_files, batch_size, i, batch, texts,
                   valid_indices, openai_results, save_tasks, records,
                   successful, failed, total_successful, total_failed, ready,
                   running, stage, df, store, store_exists, save_errors,
                   batches, pauses>>

\* lines 140-161
Begin ==
    /\ pc = "begin"
    /\ \/ /\ ~papers_exists
          /\ pc' = "returned"
       \/ /\ papers_exists
          /\ pdf_files = <<>>
          /\ pc' = "returned"
       \/ /\ papers_exists
          /\ pdf_files # <<>>
          /\ pc' = "loop"
    /\ UNCHANGED <<sent_chars, invoked, attempts, call_raised, side_files, text_raised, store_torn,
                   initial_store, papers_exists, pdf_files, batch_size, i, batch, texts,
                   valid_indices, openai_results, save_tasks, records,
                   successful, failed, total_successful, total_failed, ready,
                   running, stage, df, store, store_exists, save_errors,
                   batches, pauses>>

\* lines 163-168 and 20-27: the next batch is sliced off and its text tasks
\* are gathered
NextBatch ==
    /\ pc = "loop"
    /\ i < Len(pdf_files)
    /\ batch' = Slice(pdf_files, i, batch_size)
    /\ batches' = Append(batches, [num |-> BatchNum(i, batch_size),
                                   files |-> batch'])
    /\ ready' = batch'
    /\ pc' = "gather_text"
    /\ valid_indices' = <<>>
    /\ save_tasks' = <<>>
    /\ records' = <<>>
    /\ successful' = 0
    /\ failed' = 0
    /\ UNCHANGED <<sent_chars, invoked, attempts, call_raised, side_files, text_raised, store_torn,
                   initial_store, papers_exists, pdf_files, batch_size, i, texts,
                   openai_results, total_successful, total_failed, running,
                   stage, df, store, store_exists, save_errors, pauses>>

\* lines 163 and 182-201: the range is exhausted, the totals are returned
Finish ==
    /\ pc = "loop"
    /\ i >= Len(pdf_files)
    /\ pc' = "done"
    /\ UNCHANGED <<sent_chars, invoked, attempts, call_raised, side_files, text_raised, store_torn,
                   initial_store, papers_exists, pdf_files, batch_size, i, batch, texts,
                   valid_indices, openai_results, save_tasks, records,
                   successful, failed, total_successful, total_failed, ready,
                   running, stage, df, store, store_exists, save_errors,
                   batches, pauses>>

\* ------------------------------------------------------ process_pdf_batch
\* a text task starts: fitz.open
TextBegin(d) ==
    /\ pc = "gather_text"
    /\ CanRun(d)
    /\ stage[d] = "idle"
    /\ stage' = [stage EXCEPT ![d] = "extracting"]
    /\ invoked' = [invoked EXCEPT ![d] = Append(@, Strategies[1])]
    /\ RunTo(d, "extract_text_from_pdf", "open")
    /\ UNCHANGED <<sent_chars, attempts, call_raised, side_files, text_raised, store_torn,
                   initial_store, papers_exists, pdf_files, batch_size, pc, i, batch, texts,
                   valid_indices, openai_results, save_tasks, records,
                   successful, failed, total_successful, total_failed, df,
                   store, store_exists, save_errors, batches, pauses>>

\* a text task returns its text
TextEndFrom(d, contents) ==
    /\ pc = "gather_text"
    /\ stage[d] = "extracting"
    /\ CanResume(d)
    /\ \E content \in contents :
          /\ texts' = [texts EXCEPT ![d] = extract_text_from_pdf(content)]
          /\ text_raised' = IF content.raises THEN text_raised \cup {d}
                             ELSE text_raised
    /\ stage' = [stage EXCEPT ![d] = "extracted"]
    /\ Return(d)
    /\ UNCHANGED <<sent_chars, invoked, attempts, call_raised, side_files, store_torn,
                   initial_store, papers_exists, pdf_files, batch_size, pc, i, batch,
                   valid_indices, openai_results, save_tasks, records,
                   successful, failed, total_successful, total_failed, df,
                   store, store_exists, save_errors, batches, pauses>>

TextEnd(d) == TextEndFrom(d, PdfContents)

\* every file of the batch is handed to the service, its text blank or not
ValidIndicesAll(files, txts) == files

\* lines 34-44: the files of the batch whose text is not blank, in order
ValidIndices(files, txts) ==
    SelectSeq(files, LAMBDA d : ~IsException(txts[d]) /\ ~IsBlank(txts[d]))

\* lines 59-76: the files of the batch that had no text, in order
NoTextFiles(files, valid) ==
    SelectSeq(files, LAMBDA d : d \notin Range(valid))

\* lines 78-81: the loop over the results stops at the first TypeError
RaisesTypeError(valid, results) ==
    \E k \in 1..Len(valid) : ResultOutcome(results[valid[k]]) = "TypeError"

\* the save tasks are appended in the order of the files
SaveOrderOfInput(files, valid) == files

\* lines 75 and 125: the order in which the save tasks are appended
SaveOrder(files, valid) == NoTextFiles(files, valid) \o valid

\* the record built for a file of the batch
BuildRecord(d, valid, results) ==
    IF d \notin Range(valid) THEN NoTextRecord(Name(d), FALSE)
    ELSE ResultRecord(Name(d), results[d])

\* successful += 1 (line 111)
CountSuccessful(valid, results) ==
    Cardinality({k \in 1..Len(valid) :
                    ResultOutcome(results[valid[k]]) = "successful"})

\* failed += 1 (lines 76, 93, 105, 123)
CountFailed(files, valid, results) ==
    Len(NoTextFiles(files, valid))
    + Cardinality({k \in 1..Len(valid) :
                     ResultOutcome(results[valid[k]]) \in {"none", "json_failed"}})

\* lines 53-129: the records are built, the counters set and the save tasks
\* gathered; a TypeError leaves process_pdf_batch and batch_process_papers
BuildAndSave(valid, results) ==
    IF RaisesTypeError(valid, results)
    THEN /\ pc' = "raised"
         /\ ready' = <<>>
         /\ UNCHANGED <<save_tasks, records, successful, failed>>
    ELSE /\ save_tasks' = SaveOrder(batch, valid)
         /\ records' = [d \in Range(batch) |-> BuildRecord(d, valid, results)]
         /\ successful' = CountSuccessful(valid, results)
         /\ failed' = CountFailed(batch, valid, results)
         /\ ready' = save_tasks'
         /\ pc' = "gather_save"

\* lines 27-51: the texts are gathered; the OpenAI tasks are gathered, or
\* there is none and the records are built
AfterTexts ==
    /\ pc = "gather_text"
    /\ GatherDone
    /\ valid_indices' = ValidIndices(batch, texts)
    /\ text_raised' = {}
    /\ IF valid_indices' # <<>>
       THEN /\ ready' = valid_indices'
            /\ pc' = "gather_openai"
            /\ UNCHANGED <<save_tasks, records, successful, failed>>
       ELSE BuildAndSave(valid_indices', openai_results)
    /\ UNCHANGED <<sent_chars, invoked, attempts, call_raised, side_files, store_torn,
                   initial_store, papers_exists, pdf_files, batch_size, i, batch, texts,
                   openai_results, total_successful, total_failed, running,
                   stage, df, store, store_exists, save_errors, batches,
                   pauses>>

\* an OpenAI task starts: the request is sent
OpenAIBegin(d) ==
    /\ pc = "gather_openai"
    /\ CanRun(d)
    /\ stage[d] = "extracted"
    /\ stage' = [stage EXCEPT ![d] = "calling"]
    /\ attempts' = [attempts EXCEPT ![d] = @ + 1]
    /\ sent_chars' = [sent_chars EXCEPT ![d] = UserMessageText(texts[d])]
    /\ RunTo(d, "extract_paper_info", "create")
    /\ UNCHANGED <<invoked, call_raised, side_files, text_raised, store_torn,
                   initial_store, papers_exists, pdf_files, batch_size, pc, i, batch, texts,
                   valid_indices, openai_results, save_tasks, records,
                   successful, failed, total_successful, total_failed, df,
                   store, store_exists, save_errors, batches, pauses>>

\* a request that raised is repeated, the fourth one too
RetriesOnceMore(issued) == issued <= 3

\* lines 88-90: whether extract_paper_info issues another request after
\* `issued` requests of which the last raised; the except clause returns None
Retries(issued) == FALSE

\* the task goes on with its coroutine and keeps the loop
Continue(d) ==
    /\ running' = d
    /\ ready' = IF running = d THEN ready ELSE Tail(ready)

\* an OpenAI task returns the message content or None
OpenAIEnd(d) ==
    /\ pc = "gather_openai"
    /\ stage[d] = "calling"
    /\ CanResume(d)
    /\ \E outcome \in ServiceOutcomes :
          IF outcome.syntax = "raises" /\ Retries(attempts[d])
          THEN /\ attempts' = [attempts EXCEPT ![d] = @ + 1]
               /\ call_raised' = call_raised \cup {d}
               /\ Continue(d)
               /\ UNCHANGED <<openai_results, stage>>
          ELSE /\ openai_results' =
                     [openai_results EXCEPT ![d] = extract_paper_info(outcome)]
               /\ call_raised' = IF outcome.syntax = "raises"
                                 THEN call_raised \cup {d}
                                 ELSE call_raised \ {d}
               /\ stage' = [stage EXCEPT ![d] = "called"]
               /\ Return(d)
               /\ UNCHANGED attempts
    /\ UNCHANGED <<sent_chars, invoked, side_files, text_raised, store_torn,
                   initial_store, papers_exists, pdf_files, batch_size, pc, i, batch, texts,
                   valid_indices, save_tasks, records, successful, failed,
                   total_successful, total_failed, df, store, store_exists,
                   save_errors, batches, pauses>>

\* lines 49-129: the results are gathered and the records built
AfterOpenAI ==
    /\ pc = "gather_openai"
    /\ GatherDone
    /\ BuildAndSave(valid_indices, openai_results)
    /\ UNCHANGED <<sent_chars, invoked, attempts, call_raised, side_files, text_raised, store_torn,
                   initial_store, papers_exists, pdf_files, batch_size, i, batch, texts,
                   valid_indices, openai_results, total_successful,
                   total_failed, running, stage, df, store, store_exists,
                   save_errors, batches, pauses>>

\* ---------------------------------------------------------- save tasks
WithFrame(frames, d, frame) ==
    [x \in DOMAIN frames \cup {d} |-> IF x = d THEN frame ELSE frames[x]]

WithoutFrame(frames, d) == [x \in DOMAIN frames \ {d} |-> frames[x]]

\* lines 97-103: the record is stamped and the table read and extended
SaveRead(d) ==
    /\ pc = "gather_save"
    /\ CanRun(d)
    /\ stage[d] \notin {"saving", "writing", "saved"}
    /\ df' = WithFrame(df, d, SaveFrame(store_exists, store, records[d]))
    /\ stage' = [stage EXCEPT ![d] = "saving"]
    /\ RunTo(d, "save_to_excel", "read")
    /\ UNCHANGED <<sent_chars, invoked, attempts, call_raised, side_files, text_raised, store_torn,
                   initial_store, papers_exists, pdf_files, batch_size, pc, i, batch, texts,
                   valid_indices, openai_results, save_tasks, records,
                   successful, failed, total_successful, total_failed, store,
                   store_exists, save_errors, batches, pauses>>

\* lines 100 and 108-109: pd.read_excel raises, the except clause prints
SaveReadError(d) ==
    /\ pc = "gather_save"
    /\ CanRun(d)
    /\ stage[d] \notin {"saving", "writing", "saved"}
    /\ store_exists
    /\ save_errors' = save_errors \cup {d}
    /\ stage' = [stage EXCEPT ![d] = "saved"]
    /\ Return(d)
    /\ UNCHANGED <<sent_chars, invoked, attempts, call_raised, side_files, text_raised, store_torn,
                   initial_store, papers_exists, pdf_files, batch_size, pc, i, batch, texts,
                   valid_indices, openai_results, save_tasks, records,
                   successful, failed, total_successful, total_failed, df,
                   store, store_exists, batches, pauses>>

\* line 105: df.to_excel opens excel_path for writing, which truncates it;
\* until the workbook is written the file holds none
SaveOpen(d) ==
    /\ pc = "gather_save"
    /\ stage[d] = "saving"
    /\ CanResume(d)
    /\ store_exists' = TRUE
    /\ store_torn' = TRUE
    /\ stage' = [stage EXCEPT ![d] = "writing"]
    /\ Continue(d)
    /\ UNCHANGED <<sent_chars, invoked, attempts, call_raised, side_files, text_raised,
                   initial_store, papers_exists, pdf_files, batch_size, pc, i, batch, texts,
                   valid_indices, openai_results, save_tasks, records,
                   successful, failed, total_successful, total_failed, df,
                   store, save_errors, batches, pauses>>

\* lines 105-106: the workbook is written, the file holds the table
SaveWrite(d) ==
    /\ pc = "gather_save"
    /\ stage[d] = "writing"
    /\ CanResume(d)
    /\ store' = ToExcel(df[d])
    /\ store_torn' = FALSE
    /\ df' = WithoutFrame(df, d)
    /\ stage' = [stage EXCEPT ![d] = "saved"]
    /\ Return(d)
    /\ UNCHANGED <<sent_chars, invoked, attempts, call_raised, side_files, text_raised, store_exists,
                   initial_store, papers_exists, pdf_files, batch_size, pc, i, batch, texts,
                   valid_indices, openai_results, save_tasks, records,
                   successful, failed, total_successful, total_failed,
                   save_errors, batches, pauses>>

\* lines 105 and 108-109: df.to_excel raises when it opens the file, the
\* except clause prints
SaveWriteError(d) ==
    /\ pc = "gather_save"
    /\ stage[d] = "saving"
    /\ CanResume(d)
    /\ save_errors' = save_errors \cup {d}
    /\ df' = WithoutFrame(df, d)
    /\ stage' = [stage EXCEPT ![d] = "saved"]
    /\ Return(d)
    /\ UNCHANGED <<sent_chars, invoked, attempts, call_raised, side_files, text_raised, store_torn,
                   initial_store, papers_exists, pdf_files, batch_size, pc, i, batch, texts,
                   valid_indices, openai_results, save_tasks, records,
                   successful, failed, total_successful, total_failed, store,
                   store_exists, batches, pauses>>

\* a pause after the last batch as well
MoreFilesInclusive(index, size, n) == index + size <= n

\* line 178: files remain after this batch
MoreFiles(index, size, n) == index + size < n

\* lines 129-132 and 168-180: the saves are gathered, the batch returns its
\* counters, and the run sleeps if files remain
AfterSaves ==
    /\ pc = "gather_save"
    /\ GatherDone
    /\ total_successful' = total_successful + successful
    /\ total_failed' = total_failed + failed
    /\ IF MoreFiles(i, batch_size, Len(pdf_files))
       THEN /\ pc' = "sleep"
            /\ pauses' = pauses + 1
            /\ i' = i
       ELSE /\ pc' = "loop"
            /\ pauses' = pauses
            /\ i' = i + batch_size
    /\ UNCHANGED <<sent_chars, invoked, attempts, call_raised, side_files, text_raised, store_torn,
                   initial_store, papers_exists, pdf_files, batch_size, batch, texts,
                   valid_indices, openai_results, save_tasks, records,
                   successful, failed, ready, running, stage, df, store,
                   store_exists, save_errors, batches>>

\* line 180: asyncio.sleep(2) is over, the for loop steps
Wake ==
    /\ pc = "sleep"
    /\ i' = i + batch_size
    /\ pc' = "loop"
    /\ UNCHANGED <<sent_chars, invoked, attempts, call_raised, side_files, text_raised, store_torn,
                   initial_store, papers_exists, pdf_files, batch_size, batch, texts,
                   valid_indices, openai_results, save_tasks, records,
                   successful, failed, total_successful, total_failed, ready,
                   running, stage, df, store, store_exists, save_errors,
                   batches, pauses>>

Next ==
    \/ Begin
    \/ NextBatch
    \/ Finish
    \/ \E d \in Docs : TextBegin(d)
    \/ \E d \in Docs : TextEnd(d)
    \/ AfterTexts
    \/ \E d \in Docs : OpenAIBegin(d)
    \/ \E d \in Docs : OpenAIEnd(d)
    \/ AfterOpenAI
    \/ \E d \in Docs : SaveRead(d)
    \/ \E d \in Docs : SaveReadError(d)
    \/ \E d \in Docs : SaveOpen(d)
    \/ \E d \in Docs : SaveWrite(d)
    \/ \E d \in Docs : SaveWriteError(d)
    \/ AfterSaves
    \/ Wake

Spec == Init /\ [][Next]_vars

\* ------------------------------------------------ the run is interrupted
\* the rows a reader finds in the Excel file
FileRows == IF store_torn THEN <<>> ELSE store

\* the process is interrupted (KeyboardInterrupt, kill) wherever it stands
Interrupt ==
    /\ pc \in {"loop", "gather_text", "gather_openai", "gather_save", "sleep"}
    /\ pc' = "interrupted"
    /\ store' = FileRows
    /\ UNCHANGED <<sent_chars, invoked, attempts, call_raised, side_files, text_raised, store_torn,
                   initial_store, papers_exists, pdf_files, batch_size, i,
                   batch, texts, valid_indices, openai_results, save_tasks,
                   records, successful, failed, total_successful,
                   total_failed, ready, running, stage, df, store_exists,
                   save_errors, batches, pauses>>

NextInterrupt == Next \/ Interrupt

SpecInterrupt == Init /\ [][NextInterrupt]_vars

\* ------------------------------------------ texts of different lengths
MaxGateDocs == 2

\* files whose text has 100 or 101 characters, in one page or in two
GateContents ==
    PdfContents \cup
    { [raises |-> FALSE, pages |-> <<100>>],
      [raises |-> FALSE, pages |-> <<101>>],
      [raises |-> FALSE, pages |-> <<50, 0, 50>>] }

InitGate == Init /\ Len(pdf_files) <= MaxGateDocs /\ initial_store = <<>>

NextGate == Next \/ \E d \in Docs : TextEndFrom(d, GateContents)

SpecGate == InitGate /\ [][NextGate]_vars

\* ------------------------------------ texts around the character budget
MaxBudgetDocs == 2

\* files whose text has 15000 characters, or 15001 (two pages and the
\* newline that joins them)
BudgetContents ==
    PdfContents \cup
    { [raises |-> FALSE, pages |-> <<15000>>],
      [raises |-> FALSE, pages |-> <<7500, 7500>>] }

InitBudget == Init /\ Len(pdf_files) <= MaxBudgetDocs /\ initial_store = <<>>

NextBudget == Next \/ \E d \in Docs : TextEndFrom(d, BudgetContents)

SpecBudget == InitBudget /\ [][NextBudget]_vars

\* ------------------------------------------- the downstream consumers
MaxReportDocs == 2

\* a file path: directory, stem and suffix
Path(dir, stem, suffix) == [dir |-> dir, stem |-> stem, suffix |-> suffix]

\* excel_output / excel_file = "batch_papers_summary.xlsx": the store
StorePath == Path(".", "batch_papers_summary", "xlsx")

\* the keys of `categories` in categorize_papers_for_report
CategoryKeys ==
    {"1_Scheduling_Optimization", "2_Algorithms_Methods",
     "3_AI_MachineLearning", "4_Industry_Applications"}

\* the category workbook is written over the file that was read
CategoryFileIsStore(cat_key) == StorePath

\* report_categorizer.py line 220: output_dir / f"{cat_key}.xlsx"
CategoryFile(cat_key) == Path("categorized_papers", cat_key, "xlsx")

\* report_categorizer.py lines 100-106: the rows skipped as error papers
\* (summary missing, or holding "error" or "failed")
IsErrorPaper(row) ==
    row.summary \in {"NaN", "Failed to extract text from PDF",
                     "JSON parsing error"}

\* report_categorizer.py line 314: the file generate_report_prompts writes
BasePromptFile == Path("report_prompts", "00_base_context", "txt")

\* a consumer writes a workbook (to the store if that is the path) and
\* other files
WriteExcel(path, rows, others) ==
    IF path = StorePath
    THEN /\ store' = ToExcel(rows)
         /\ store_exists' = TRUE
         /\ side_files' = side_files \cup others
    ELSE /\ side_files' = side_files \cup {path} \cup others
         /\ UNCHANGED <<store, store_exists>>

\* the pipeline has returned or raised
RunOver == pc \in {"returned", "done", "raised"}

\* what no consumer touches
ConsumerFrame ==
    UNCHANGED <<sent_chars, invoked, attempts, call_raised, text_raised, store_torn,
                initial_store, papers_exists, pdf_files, batch_size, pc, i,
                batch, texts, valid_indices, openai_results, save_tasks,
                records, successful, failed, total_successful, total_failed,
                ready, running, stage, df, save_errors, batches, pauses>>

\* report_categorizer.py lines 8-254 with the default excel_file: the store
\* is read, the papers that are no error papers are put in categories and
\* each category with papers is written to its workbook (one category here)
categorize_papers_for_report ==
    /\ RunOver
    /\ store_exists
    /\ store # <<>>
    /\ "summary" \in Cols(store)
    /\ LET papers ==
               SelectSeq(ReadExcel(store), LAMBDA row : ~IsErrorPaper(row))
       IN  IF papers = <<>>
           THEN /\ side_files' = side_files \cup {BasePromptFile}
                /\ UNCHANGED <<store, store_exists>>
           ELSE \E cat_key \in CategoryKeys :
                   WriteExcel(CategoryFile(cat_key), papers, {BasePromptFile})
    /\ ConsumerFrame

\* category_analyzer.py lines 8-230: reads the store and prints
analyze_categories ==
    /\ RunOver
    /\ ConsumerFrame
    /\ UNCHANGED <<store, store_exists, side_files>>

\* excel_analyzer.py lines 9-91: reads the store and writes the first rows
\* to sample_papers.csv
analyze_excel_data ==
    /\ RunOver
    /\ store_exists
    /\ store # <<>>
    /\ side_files' = side_files \cup {Path(".", "sample_papers", "csv")}
    /\ ConsumerFrame
    /\ UNCHANGED <<store, store_exists>>

\* create_references.py lines 9-157 with the default output_file: reads
\* the store if it exists and writes paper_references.txt
create_references_file ==
    /\ RunOver
    /\ papers_exists
    /\ pdf_files # <<>>
    /\ side_files' = side_files \cup {Path(".", "paper_references", "txt")}
    /\ ConsumerFrame
    /\ UNCHANGED <<store, store_exists>>

Consumers ==
    \/ categorize_papers_for_report
    \/ analyze_categories
    \/ analyze_excel_data
    \/ create_references_file

InitConsumers == Init /\ Len(pdf_files) <= MaxReportDocs /\ batch_size = 1

NextConsumers == Next \/ Consumers

SpecConsumers == InitConsumers /\ [][NextConsumers]_vars

\* ------------------------------ process_single_pdf and process_papers
\* pdf_processor.py lines 142-150 and 214-222: the record for no answer
SingleNoneRecord(name) ==
    [filename   |-> name,
     title      |-> name,
     abstract   |-> "OpenAI processing failed",
     method     |-> "OpenAI processing failed",
     objectives |-> "OpenAI processing failed",
     categories |-> "list:Error",
     summary    |-> "Failed to process with OpenAI"]

\* pdf_processor.py lines 157-165 and 246-254: the record for a body that
\* is no JSON
SingleJsonFailedRecord(name) ==
    [filename   |-> name,
     title      |-> name,
     abstract   |-> "JSON parsing failed",
     method     |-> "JSON parsing failed",
     objectives |-> "JSON parsing failed",
     categories |-> "list:Error",
     summary    |-> "Failed to parse OpenAI response"]

\* pdf_processor.py lines 140-165 and 212-254
SingleRecord(name, result) ==
    IF ResultOutcome(result) = "none" THEN SingleNoneRecord(name)
    ELSE IF ResultOutcome(result) = "json_failed"
    THEN SingleJsonFailedRecord(name)
    ELSE ParsedRecord(name, json_loads(result))

\* what save_to_excel meets: no error, pd.read_excel raises, df.to_excel
\* raises
SaveOutcomes == {"saved", "read_error", "write_error"}

\* pdf_processor.py lines 126-170 and 198-259 (test_mode False): one file
\* is extracted, sent to the service and saved, one await after the other;
\* a file without text is skipped, a TypeError leaves the function
ProcessFile(d, next_pc) ==
    \E content \in PdfContents, outcome \in ServiceOutcomes,
       io \in SaveOutcomes :
        LET text   == extract_text_from_pdf(content)
            result == extract_paper_info(outcome)
            blank  == IsBlank(text)
            raises == ~blank /\ ResultOutcome(result) = "TypeError"
            saves  == ~blank /\ ~raises
            wrote  == saves /\ io = "saved"
        IN  /\ io = "read_error" => store_exists
            /\ invoked' = [invoked EXCEPT ![d] = Append(@, Strategies[1])]
            /\ texts' = [texts EXCEPT ![d] = text]
            /\ attempts' = [attempts EXCEPT ![d] = IF blank THEN @ ELSE @ + 1]
            /\ sent_chars' = [sent_chars EXCEPT ![d] =
                                 IF blank THEN @ ELSE UserMessageText(text)]
            /\ openai_results' =
                  [openai_results EXCEPT ![d] = IF blank THEN @ ELSE result]
            /\ call_raised' = IF ~blank /\ outcome.syntax = "raises"
                              THEN call_raised \cup {d} ELSE call_raised
            /\ stage' = [stage EXCEPT ![d] = IF blank THEN "skipped"
                                             ELSE IF raises THEN "called"
                                             ELSE "saved"]
            /\ store' = IF wrote
                        THEN ToExcel(SaveFrame(store_exists, store,
                                               SingleRecord(Name(d), result)))
                        ELSE store
            /\ store_exists' = (store_exists \/ wrote)
            /\ save_errors' = IF saves /\ ~wrote THEN save_errors \cup {d}
                              ELSE save_errors
            /\ pc' = IF raises THEN "raised" ELSE next_pc

\* what the two functions leave alone
EntryFrame ==
    UNCHANGED <<side_files, text_raised, store_torn, initial_store,
                papers_exists, pdf_files, batch_size, batch, valid_indices,
                save_tasks, records, successful, failed, total_successful,
                total_failed, ready, running, df, batches, pauses>>

\* pdf_processor.py lines 112-171, called with the first file of the
\* directory; without such a file it returns False at line 118
process_single_pdf ==
    /\ pc = "begin"
    /\ IF pdf_files = <<>>
       THEN /\ pc' = "single_returned"
            /\ UNCHANGED <<sent_chars, invoked, attempts, call_raised, texts,
                           openai_results, stage, store, store_exists,
                           save_errors>>
       ELSE ProcessFile(pdf_files[1], "single_returned")
    /\ UNCHANGED i
    /\ EntryFrame

\* pdf_processor.py lines 174-193: process_papers(test_mode=False) begins
PapersBegin ==
    /\ pc = "begin"
    /\ pc' = IF ~papers_exists \/ pdf_files = <<>> THEN "papers_returned"
             ELSE "papers_loop"
    /\ UNCHANGED <<sent_chars, invoked, attempts, call_raised, texts, openai_results,
                   stage, store, store_exists, save_errors, i>>
    /\ EntryFrame

\* pdf_processor.py lines 195-259: the next file of the for loop
PapersFile ==
    /\ pc = "papers_loop"
    /\ i < Len(pdf_files)
    /\ ProcessFile(pdf_files[i + 1], "papers_loop")
    /\ i' = i + 1
    /\ EntryFrame

\* pdf_processor.py lines 261-262: the for loop is over
PapersEnd ==
    /\ pc = "papers_loop"
    /\ i = Len(pdf_files)
    /\ pc' = "papers_done"
    /\ UNCHANGED <<sent_chars, invoked, attempts, call_raised, texts, openai_results,
                   stage, store, store_exists, save_errors, i>>
    /\ EntryFrame

NextEntry ==
    \/ Next
    \/ process_single_pdf
    \/ PapersBegin
    \/ PapersFile
    \/ PapersEnd

SpecEntry == Init /\ [][NextEntry]_vars

\* =========================================================== properties
N == Len(pdf_files)

Files == 1..N

CeilDiv(a, b) == (a + b - 1) \div b

\* the rows this run added to the store that carry the name of file d
RowsOf(d) ==
    {k \in (Len(initial_store) + 1)..Len(store) : store[k].filename = Name(d)}

\* the files whose save_to_excel call returned without an I/O error
SavedOK == {d \in Files : stage[d] = "saved" /\ d \notin save_errors}

\* the files of the batches before the running one
Earlier == {d \in Files : batch # <<>> /\ d < batch[1]}

\* C1: when batch_process_papers finishes, total_successful + total_failed
\* is the number of documents and the store has gained exactly one record
\* per input document.
C1_Completeness ==
    pc = "done" =>
        /\ total_successful + total_failed = N
        /\ Len(store) = Len(initial_store) + N
        /\ \A d \in Files : Cardinality(RowsOf(d)) = 1

\* the part of C1 the code keeps: the counters add up, and a document is
\* missing from the store only if its save hit an I/O error
C1_WithoutIOErrors ==
    pc = "done" =>
        /\ total_successful + total_failed = N
        /\ Len(store) = Len(initial_store) + Cardinality(SavedOK)
        /\ \A d \in Files :
              Cardinality(RowsOf(d)) = IF d \in save_errors THEN 0 ELSE 1

\* C2: two save_to_excel calls are never both between reading the table and
\* rewriting it; a row written by one save is never lost to a later rewrite;
\* a batch whose saves hit no I/O error grows the store by its n rows.
C2_SingleWriter ==
    /\ Cardinality(DOMAIN df) <= 1
    /\ \A d \in SavedOK : Cardinality(RowsOf(d)) = 1
    /\ Len(store) = Len(initial_store) + Cardinality(SavedOK)
    /\ (pc = "gather_save" /\ GatherDone /\ Range(batch) \cap save_errors = {})
          => Len(store) = Len(initial_store)
                          + Cardinality(Earlier \ save_errors) + Len(batch)

C2_Witness ==
    /\ pc = "gather_save"
    /\ GatherDone
    /\ Len(batch) >= 2
    /\ Range(batch) \cap save_errors = {}
    /\ \A d \in Range(batch) : Cardinality(RowsOf(d)) = 1

\* C3: whatever the per-document outcomes, batch_process_papers raises no
\* exception.
C3_NeverRaises == pc # "raised"

\* the running process_pdf_batch has returned or raised
BatchOver == batch # <<>> /\ pc \in {"loop", "sleep", "done", "raised"}

\* what a batch of the single file d does with d's text and result
AloneValid(d) == ValidIndices(<<d>>, texts)

AloneRaises(d) == RaisesTypeError(AloneValid(d), openai_results)

AloneRecord(d) == BuildRecord(d, AloneValid(d), openai_results)

AloneFailed(d) == CountFailed(<<d>>, AloneValid(d), openai_results) = 1

\* row k of the store holds the record, as Excel holds it
HoldsRecord(k, record) ==
    \A c \in DOMAIN record : store[k][c] = ExcelCell(record[c])

\* C4: when a document of a batch fails (no text extracted), every other
\* document of the batch still has its record built and appended with the
\* outcome it would have had alone, and the batch's failure count is the
\* number of its documents that fail alone.
C4_FailureIsolation ==
    BatchOver =>
        \A D \in Range(batch) : \A j \in Range(batch) :
            (D # j /\ IsBlank(texts[D]) /\ ~AloneRaises(j)) =>
                /\ stage[j] = "saved"
                /\ j \notin save_errors =>
                      \E k \in RowsOf(j) : HoldsRecord(k, AloneRecord(j))
                /\ failed = Cardinality({d \in Range(batch) : AloneFailed(d)})

\* the status the record of file d is to carry
IsExactShape(result) ==
    result.syntax = "object" /\ result.keys = RequiredFields

ExpectedStatus(d) ==
    IF IsBlank(texts[d]) THEN "extraction_failed"
    ELSE IF openai_results[d].syntax = "None" THEN "service_failed"
    ELSE IF IsExactShape(openai_results[d]) THEN "ok"
    ELSE "schema_invalid"

\* C5: every record written for a document carries a status that names its
\* outcome: extraction_failed, service_failed, schema_invalid or ok.
C5_StatusIdentifiesKind ==
    \A d \in Files : \A k \in RowsOf(d) :
        /\ "status" \in DOMAIN store[k]
        /\ store[k]["status"] = ExpectedStatus(d)

\* C6: a document whose service body was received is counted successful
\* and stored with the model's payload only if the body is an object with
\* exactly the required fields; any other body gives the JSON-failure
\* placeholder and counts as failed.
C6_SchemaGate ==
    pc = "gather_save" =>
        /\ \A d \in Range(valid_indices) :
              openai_results[d].syntax # "None" =>
                  IF IsExactShape(openai_results[d])
                  THEN DOMAIN records[d] = RequiredFields \cup {"filename"}
                       /\ records[d].abstract = ModelValue("abstract")
                  ELSE records[d].abstract = "JSON parsing failed"
        /\ successful = Cardinality({d \in Range(valid_indices) :
                                        IsExactShape(openai_results[d])})

\* the k-th batch of n files in batches of b: its files
PartitionSize(k, n, b) == IF k * b <= n THEN b ELSE n - (k - 1) * b

PartitionFiles(k, n, b) ==
    [m \in 1..PartitionSize(k, n, b) |-> (k - 1) * b + m]

\* C7: the batches formed are numbered 1.. and are the consecutive slices
\* of the file list: every batch but the last has batch_size files, the
\* last between 1 and batch_size; a finished run has formed ceil(n/b)
\* batches and every file is in exactly one of them.
C7_BatchPartitioning ==
    /\ Len(batches) <= CeilDiv(N, batch_size)
    /\ \A k \in 1..Len(batches) :
          /\ batches[k].num = k
          /\ batches[k].files = PartitionFiles(k, N, batch_size)
          /\ Len(batches[k].files) >= 1
          /\ Len(batches[k].files) <= batch_size
          /\ k < CeilDiv(N, batch_size) => Len(batches[k].files) = batch_size
    /\ pc = "done" =>
          /\ Len(batches) = CeilDiv(N, batch_size)
          /\ \A d \in Files :
                Cardinality({k \in 1..Len(batches) :
                                d \in Range(batches[k].files)}) = 1

C7_Witness ==
    /\ pc = "done"
    /\ Len(batches) >= 2
    /\ Len(batches[Len(batches)].files) < batch_size

\* C8: the run has paused once for each batch that is over and has a
\* successor; it pauses only when the batch is saved and files remain; a
\* finished run of k batches has paused k-1 times.
C8_InterBatchPacing ==
    /\ pauses = IF pc \in {"begin", "returned"} THEN 0
                ELSE IF pc = "sleep" \/ (pc = "loop" /\ i < N) THEN Len(batches)
                ELSE Len(batches) - 1
    /\ pc = "sleep" =>
          /\ \A k \in 1..Len(batches) : \A d \in Range(batches[k].files) :
                stage[d] = "saved"
          /\ Len(batches) < CeilDiv(N, batch_size)
          /\ \A d \in Files :
                (\A k \in 1..Len(batches) : d \notin Range(batches[k].files))
                    => stage[d] = "idle"
    /\ pc = "done" => pauses = CeilDiv(N, batch_size) - 1

C8_Witness ==
    /\ pc = "done"
    /\ pauses >= 1
    /\ pauses = Len(batches) - 1

\* a file of a batch after batch k has begun its extraction
LaterStarted(k) ==
    \E m \in (k + 1)..Len(batches) : \E d \in Range(batches[m].files) :
        stage[d] # "idle"

\* C9: no work for a document of batch k+1 begins before every document
\* of batch k has finished its stages and its record is in the store.
C9_BatchBarrier ==
    \A k \in 1..Len(batches) :
        LaterStarted(k) =>
            \A d \in Range(batches[k].files) :
                stage[d] = "saved" /\ RowsOf(d) # {}

\* C9 as the code keeps it: no work for a document of batch k+1 begins
\* before every document of batch k has finished its stages and its
\* save_to_excel call has returned; its record is then in the store
\* unless that call hit an I/O error.
C9_BatchBarrierAmended ==
    \A k \in 1..Len(batches) :
        LaterStarted(k) =>
            \A d \in Range(batches[k].files) :
                /\ stage[d] = "saved"
                /\ d \notin save_errors => RowsOf(d) # {}

C9_Witness ==
    /\ Len(batches) >= 2
    /\ LaterStarted(1)
    /\ \A d \in Range(batches[1].files) : RowsOf(d) # {}

\* the record of file d is determined and its save has not begun
AwaitsSave(d) ==
    \/ stage[d] = "called"
    \/ stage[d] = "extracted" /\ IsBlank(texts[d])

\* C10: a document whose extraction and enrichment are over is not kept
\* from the store while another document of its batch is extracted or
\* sent to the service.
C10_IncrementalPersistence ==
    \A d \in Range(batch) : \A e \in Range(batch) :
        ~(d # e /\ AwaitsSave(d) /\ stage[e] \in {"extracting", "calling"})

\* C11: a save_to_excel call that writes the store leaves every row the
\* store held present, unchanged and in the same position, and adds exactly
\* one row at the end (to an absent store: creates it with one row).
C11_AppendOnly ==
    [][store' # store =>
          /\ Len(store') = Len(store) + 1
          /\ \A k \in 1..Len(store) : \A c \in DOMAIN store[k] :
                /\ c \in DOMAIN store'[k]
                /\ store'[k][c] = store[k][c]]_vars

\* the rows of the store that carry the name of file d, old and new
NamedRows(rows, d) == {k \in 1..Len(rows) : rows[k].filename = Name(d)}

\* the run is a rerun: a previous run over the same files wrote the store
IsRerun == N >= 1 /\ initial_store = PreviousRun(pdf_files)

\* C12: a rerun over the same n documents and the same store that finishes
\* with no save error leaves 2n rows, each filename in two rows; a save
\* that writes never skips or replaces a row because its filename is there.
C12_RerunDuplicates ==
    /\ (pc = "done" /\ IsRerun /\ save_errors = {}) =>
          /\ Len(store) = 2 * N
          /\ \A d \in Files : Cardinality(NamedRows(store, d)) = 2
    /\ \A d \in SavedOK :
          Cardinality(NamedRows(store, d))
              = Cardinality(NamedRows(initial_store, d)) + 1

C12_Witness ==
    /\ pc = "done"
    /\ IsRerun
    /\ N >= 2
    /\ \A d \in Files : Cardinality(NamedRows(store, d)) = 2

\* the service call of file d is over
CallOver(d) == stage[d] \in {"called", "saving", "writing", "saved"}

\* C13: a service failure is reported for a document only after
\* maxRetries (3) requests have all failed, the extractor having slept and
\* tried again after each failed request but the last.
C13_RetryWithBackoff ==
    \A d \in Files :
        (CallOver(d) /\ openai_results[d].syntax = "None"
                     /\ d \in call_raised) => attempts[d] = 3

\* C14: the number of service requests issued for one document never
\* exceeds maxRetries (3).
C14_RetryBound == \A d \in Docs : attempts[d] <= 3

C14_Witness ==
    \E d \in Files :
        /\ CallOver(d)
        /\ d \in call_raised
        /\ attempts[d] = 1
        /\ pc = "done"

\* file d has been sent to the model service
Forwarded(d) == attempts[d] >= 1

\* C15: extracted text is forwarded to the model service only if its
\* trimmed length exceeds 100; a document with a trimmed length of 100 or
\* fewer is an extraction failure and is not sent to the service.
C15_QualityGate ==
    \A d \in Files :
        /\ Forwarded(d) => texts[d] > 100
        /\ (pc = "gather_save" /\ d \in Range(batch) /\ texts[d] <= 100) =>
              records[d] = NoTextRecord(Name(d), FALSE)

\* the extraction of file d is over
Extracted(d) == stage[d] \notin {"idle", "extracting"}

\* C16: extraction invokes its strategies in the order 1..5 and stops at
\* the first whose text passes the gate; a document whose strategy 1 gives
\* no acceptable text has had strategy 2 invoked next, and so on to 5.
C16_StrategyOrdering ==
    \A d \in Files :
        /\ \A k \in 1..Len(invoked[d]) : invoked[d][k] = k
        /\ (Extracted(d) /\ IsBlank(texts[d])) => invoked[d] = <<1, 2, 3, 4, 5>>

\* the run counted file d as successfully processed
ReportedSuccessful(d) ==
    /\ pc = "done"
    /\ ~IsBlank(texts[d])
    /\ ResultOutcome(openai_results[d]) = "successful"

\* C17: a store append that hits an I/O error is surfaced to the run; a
\* document whose record could not be written is never reported as
\* successfully processed while its row is absent from the store.
C17_PersistenceSurfaced ==
    /\ \A d \in Files : ReportedSuccessful(d) => RowsOf(d) # {}
    /\ pc = "done" =>
          total_successful = Cardinality({d \in Files :
              ReportedSuccessful(d) /\ d \notin save_errors})

\* the source directory is missing or holds no PDF
ConfigurationError == ~papers_exists \/ pdf_files = <<>>

\* C18: when the source directory is missing or holds no PDF,
\* batch_process_papers returns early without raising, extracts nothing,
\* calls the service for nothing and neither creates nor changes the store.
C18_ConfigurationError ==
    ConfigurationError =>
        /\ pc \in {"begin", "returned"}
        /\ \A d \in Docs :
              stage[d] = "idle" /\ invoked[d] = <<>> /\ attempts[d] = 0
        /\ batches = <<>>
        /\ store = initial_store
        /\ store_exists = (initial_store # <<>>)
        /\ ~store_torn

C18_Witness ==
    /\ ConfigurationError
    /\ pc = "returned"
    /\ store_exists

\* C19: while the task of one document of a batch is inside text
\* extraction or the service call, the tasks of the other documents of the
\* batch can still take steps.
C19_TasksOverlap ==
    \A d \in Range(batch) : \A e \in Range(batch) :
        /\ (pc = "gather_text" /\ stage[d] = "extracting"
                               /\ stage[e] = "idle")
              => ENABLED TextBegin(e)
        /\ (pc = "gather_openai" /\ stage[d] = "calling"
                                 /\ stage[e] = "extracted"
                                 /\ e \in Range(valid_indices))
              => ENABLED OpenAIBegin(e)

\* C20: if the run is interrupted at any point, also in the middle of a
\* save_to_excel call that is rewriting the table, every record whose
\* append had completed before is still in the store afterwards.
C20_DurableUnderInterruption ==
    pc = "interrupted" =>
        /\ \A d \in SavedOK : RowsOf(d) # {}
        /\ Len(store) >= Len(initial_store) + Cardinality(SavedOK)

C22_NoOrchestratorRetry ==
    \A d \in Docs :
        /\ Len(invoked[d]) <= 1
        /\ attempts[d] <= 1
        /\ attempts[d] = 1 => (Extracted(d) /\ ~IsBlank(texts[d]))
        /\ (pc = "done" /\ d \in Files) => Len(invoked[d]) = 1
        /\ d \in Earlier => (stage[d] = "saved" /\ d \notin Range(ready))

C22_Witness ==
    /\ pc = "done"
    /\ Len(batches) >= 2
    /\ \E d \in Range(batches[1].files) :
          IsBlank(texts[d]) /\ Len(invoked[d]) = 1 /\ attempts[d] = 0
    /\ \E e \in Files : e \in call_raised /\ attempts[e] = 1

\* C23: the store file is changed only by save_to_excel; the downstream
\* consumers read it and leave its rows as they are, whatever other files
\* they create.
C23_OnlySaveMutatesStore ==
    [][(store' # store \/ store_exists' # store_exists) =>
          \E d \in Docs : SaveOpen(d) \/ SaveWrite(d)]_vars

C23_Witness ==
    /\ RunOver
    /\ \E cat_key \in CategoryKeys : CategoryFile(cat_key) \in side_files
    /\ Path(".", "sample_papers", "csv") \in side_files
    /\ Path(".", "paper_references", "txt") \in side_files
    /\ Len(store) > Len(initial_store)
    /\ \E k \in 1..Len(store) : IsErrorPaper(store[k])

\* the entry point is over and file d was given to it
GivenAndOver(d) ==
    \/ pc \in {"done", "papers_done"} /\ d \in Files
    \/ pc = "single_returned" /\ N >= 1 /\ d = 1

\* C24: batch_process_papers, process_single_pdf and process_papers (not
\* in test mode) append exactly one record for each PDF they are given,
\* also when the extraction yields no text or the service call fails.
C24_OneRecordEveryEntryPoint ==
    \A d \in Docs :
        (GivenAndOver(d) /\ d \notin save_errors) =>
            Cardinality(RowsOf(d)) = 1

\* C25: the text in the user message of a request is the first
\* min(len(text), 15000) characters of the extracted text: never more than
\* 15000 characters, and a text of 15000 characters or fewer whole.
C25_InputTruncation ==
    \A d \in Docs :
        Forwarded(d) =>
            /\ sent_chars[d] <= 15000
            /\ sent_chars[d] <= texts[d]
            /\ texts[d] <= 15000 => sent_chars[d] = texts[d]
            /\ texts[d] > 15000 => sent_chars[d] = 15000

C25_Witness ==
    /\ pc = "done"
    /\ \E d \in Files : Forwarded(d) /\ texts[d] > 15000
                                    /\ sent_chars[d] = 15000
    /\ \E d \in Files : Forwarded(d) /\ texts[d] = 15000
                                    /\ sent_chars[d] = 15000

\* the positions of the rows this run added to the store
NewRows == (Len(initial_store) + 1)..Len(store)

\* C26: every record process_pdf_batch writes has the name of the document
\* it was produced from as its filename, also when the model's answer
\* holds another filename; no two records appended in one run share a
\* filename.
C26_RecordKeyIntegrity ==
    /\ pc = "gather_save" =>
          \A d \in Range(batch) : records[d].filename = Name(d)
    /\ \A k \in NewRows : \E d \in SavedOK : store[k].filename = Name(d)
    /\ \A k \in NewRows : \A m \in NewRows :
          store[k].filename = store[m].filename => k = m

C26_Witness ==
    /\ pc = "done"
    /\ N >= 2
    /\ \A d \in Files : RowsOf(d) # {}
    /\ \E d \in Files :
          /\ ResultOutcome(openai_results[d]) = "successful"
          /\ "filename" \in openai_results[d].keys
    /\ \E d \in Files : IsBlank(texts[d])

\* file d is written before file e of the same batch: the files without
\* usable text first, then the files sent to the service, each group in
\* input order
WrittenBefore(d, e) ==
    \/ IsBlank(texts[d]) /\ ~IsBlank(texts[e])
    \/ IsBlank(texts[d]) = IsBlank(texts[e]) /\ d < e

\* C27: the rows a batch adds to the store are in a fixed order: first the
\* placeholders of the documents without usable text, in input order, then
\* the records of the documents sent to the service, in input order,
\* however the save tasks are scheduled.
C27_DeterministicWriteOrder ==
    \A d \in Range(batch) : \A e \in Range(batch) :
        \A kd \in RowsOf(d) : \A ke \in RowsOf(e) :
            WrittenBefore(d, e) => kd < ke

C27_Witness ==
    /\ pc = "gather_save"
    /\ GatherDone
    /\ Len(batch) >= 3
    /\ save_errors = {}
    /\ \E d \in Range(batch) : \E e \in Range(batch) :
          /\ e < d
          /\ IsBlank(texts[d])
          /\ ~IsBlank(texts[e])
          /\ \E kd \in RowsOf(d) : \E ke \in RowsOf(e) : kd < ke

====
